---- MODULE Spec2Model ----
(***************************************************************************)
(* Marvin32 (src/src/lib.rs): the one-shot hash, the streaming hash over a *)
(* fallible byte source, and the incremental std::hash::Hasher.            *)
(*                                                                         *)
(* A u32 is a pair <<low 16 bits, high 16 bits>> and a u64 is four 16-bit  *)
(* limbs, least significant first, so that every wrapping addition,        *)
(* rotation and shift is computed at the width the code computes it.       *)
(***************************************************************************)
EXTENDS Integers, Sequences, FiniteSets, TLC

\* ---------------------------------------------------------------- bounds
\* longest input drawn exhaustively over ByteVals
MaxLen == 5
\* most Interrupted failures the byte source inserts into one run
MaxInterrupts == 2
\* most words mixed in a row from a drawn state
MaxMixes == 2

\* ------------------------------------------------------------- constants
\* [0u8; 4]: the size of the word buffer (lib.rs:78, lib.rs:134)
BufSize == 4
\* 0x80: the seed of the final-word fold (lib.rs:63, 90, 183)
Pad == 128

Limb == 2 ^ 16
ByteVals == {128, 255}

\* 0x5D70D359C498B3F8, the seed of the unit tests
TEST_SEED == <<46072, 50328, 54105, 23920>>
\* b"A\0b\0c\0d\0e\0f\0g\0"
TEST == <<65, 0, 98, 0, 99, 0, 100, 0, 101, 0, 102, 0, 103, 0>>
\* 0xba627c81, the hash the unit tests expect
TEST_HASH == <<31873, 47714>>

Seeds == {<<0, 0, 0, 0>>, <<65535, 65535, 65535, 65535>>, TEST_SEED}
Inputs == UNION {[1 .. n -> ByteVals] : n \in 0 .. MaxLen} \cup {TEST}
\* std::io::ErrorKind: the retryable kind and two of the others
ErrorKinds == {"Interrupted", "Other", "UnexpectedEof"}

Min(a, b) == IF a < b THEN a ELSE b

\* ------------------------------------------------------ 32-bit arithmetic
RECURSIVE xor_bits(_, _, _)
xor_bits(a, b, n) ==
    IF n = 0 THEN 0
    ELSE (((a % 2) + (b % 2)) % 2) + 2 * xor_bits(a \div 2, b \div 2, n - 1)

RECURSIVE or_bits(_, _, _)
or_bits(a, b, n) ==
    IF n = 0 THEN 0
    ELSE (IF (a % 2) = 1 \/ (b % 2) = 1 THEN 1 ELSE 0)
         + 2 * or_bits(a \div 2, b \div 2, n - 1)

\* u32 ^ u32
xor32(a, b) == <<xor_bits(a[1], b[1], 16), xor_bits(a[2], b[2], 16)>>

\* u32 | u32
or32(a, b) == <<or_bits(a[1], b[1], 16), or_bits(a[2], b[2], 16)>>

\* u32::saturating_add
saturating_add(a, b) ==
    LET l == a[1] + b[1]
        h == a[2] + b[2] + (l \div Limb)
    IN  IF h >= Limb THEN <<Limb - 1, Limb - 1>> ELSE <<l % Limb, h>>

\* u32::wrapping_add
wrapping_add(a, b) ==
    LET l == a[1] + b[1]
    IN  <<l % Limb, (a[2] + b[2] + (l \div Limb)) % Limb>>

\* u32::rotate_left by n in 0..31
rotate_left(a, n) ==
    LET s == IF n >= 16 THEN <<a[2], a[1]>> ELSE a
        k == n % 16
        up == 2 ^ k
        down == 2 ^ (16 - k)
    IN  <<((s[1] * up) % Limb) + (s[2] \div down),
          ((s[2] * up) % Limb) + (s[1] \div down)>>

\* u32 << n for n in 0..15: the bits shifted past bit 31 are dropped
shl32(a, n) ==
    LET up == 2 ^ n
        down == 2 ^ (16 - n)
    IN  <<(a[1] * up) % Limb, ((a[2] * up) % Limb) + (a[1] \div down)>>

\* u8 as u32
as_u32(byte) == <<byte, 0>>

\* the bytes taken most significant first
from_be_bytes(b) == <<b[4] + 256 * b[3], b[2] + 256 * b[1]>>

\* u32::from_le_bytes
from_le_bytes(b) == <<b[1] + 256 * b[2], b[3] + 256 * b[4]>>

\* the conversion by way of i32: bit 31 is copied into the upper half
into_u64_sign_extended(w) ==
    IF w[2] >= 32768 THEN <<w[1], w[2], Limb - 1, Limb - 1>>
    ELSE <<w[1], w[2], 0, 0>>

\* u32 -> u64 (From<u32> for u64)
into_u64(w) == <<w[1], w[2], 0, 0>>

\* ---------------------------------------------------------- Marvin32State
\* Marvin32State { lo: seed as u32, hi: (seed >> 32) as u32 }
init_state(seed) == [lo |-> <<seed[1], seed[2]>>, hi |-> <<seed[3], seed[4]>>]

marvin32_mix(st, v) ==
    LET lo1 == wrapping_add(st.lo, v)
        hi1 == xor32(st.hi, lo1)
        lo2 == wrapping_add(rotate_left(lo1, 20), hi1)
        hi2 == xor32(rotate_left(hi1, 9), lo2)
        lo3 == wrapping_add(rotate_left(lo2, 27), hi2)
        hi3 == rotate_left(hi2, 19)
    IN  [lo |-> lo3, hi |-> hi3]

\* slice.chunks_exact(4): the full chunks, in order
chunks_exact(s) ==
    [i \in 1 .. (Len(s) \div BufSize) |->
        SubSeq(s, BufSize * (i - 1) + 1, BufSize * i)]

\* ChunksExact::remainder
remainder(s) == SubSeq(s, BufSize * (Len(s) \div BufSize) + 1, Len(s))

\* while let Some(chunk) = chunks.next() { mix(from_le_bytes(chunk)) }
RECURSIVE mix_chunks(_, _)
mix_chunks(st, chunks) ==
    IF chunks = <<>> THEN st
    ELSE mix_chunks(marvin32_mix(st, from_le_bytes(Head(chunks))), Tail(chunks))

\* the fold without rev(): the first byte ends up most significant
RECURSIVE fold_fwd(_, _)
fold_fwd(acc, r) ==
    IF r = <<>> THEN acc
    ELSE fold_fwd(or32(shl32(acc, 8), as_u32(Head(r))), Tail(r))

\* r.iter().rev().fold(acc, |state, byte| (state << 8) | *byte as u32)
RECURSIVE fold_rev(_, _)
fold_rev(acc, r) ==
    IF r = <<>> THEN acc
    ELSE fold_rev(or32(shl32(acc, 8), as_u32(r[Len(r)])),
                  SubSeq(r, 1, Len(r) - 1))

marvin32_hash(ptr, seed) ==
    LET state0 == init_state(seed)
        state1 == mix_chunks(state0, chunks_exact(ptr))
        final_value == fold_rev(as_u32(Pad), remainder(ptr))
        state2 == marvin32_mix(state1, final_value)
        state3 == marvin32_mix(state2, <<0, 0>>)
    IN  xor32(state3.lo, state3.hi)

\* ------------------------------------------------------- Cursor<[u8; 4]>
\* Cursor::new([0u8; 4])
cursor_new == [inner |-> <<0, 0, 0, 0>>, pos |-> 0]

\* <Cursor<[u8; N]> as Write>::write: copies as much of data as fits from
\* pos on, advances pos by that amount and returns it as n
cursor_write(cur, data) ==
    LET pos == Min(cur.pos, BufSize)
        amt == Min(Len(data), BufSize - pos)
    IN  [cur |-> [inner |-> [i \in 1 .. BufSize |->
                               IF i > pos /\ i <= pos + amt
                               THEN data[i - pos] ELSE cur.inner[i]],
                  pos |-> cur.pos + amt],
         n |-> amt]

\* the position is left where it was
set_position_noop(cur, p) == cur

\* Cursor::set_position
set_position(cur, p) == [cur EXCEPT !.pos = p]

\* -------------------------------------------------------- Hasher::write
\* what a call of write leaves behind: panic is TRUE when the call unwinds
returned(st, buf) == [panic |-> FALSE, state |-> st, buffer |-> buf]
unwound(st, buf) == [panic |-> TRUE, state |-> st, buffer |-> buf]

\* lib.rs:165-176: the full chunks are mixed, the leftover goes to the buffer
write_chunks(dbg, st, buf, slice) ==
    LET st1 == mix_chunks(st, chunks_exact(slice))
        w == cursor_write(buf, remainder(slice))
        bytes_written == w.n
    IN  IF dbg /\ (bytes_written # Len(remainder(slice)) \/ ~(bytes_written < 4))
        THEN unwound(st1, w.cur)
        ELSE returned(st1, w.cur)

\* lib.rs:141-177
write_effect(dbg, st, buf, slice) ==
    IF dbg /\ ~(buf.pos # 4) THEN unwound(st, buf)
    ELSE LET bytes_to_steal == 4 - buf.pos IN
         IF bytes_to_steal < 4
         THEN IF bytes_to_steal > Len(slice)
              THEN \* &slice[..bytes_to_steal]: range end out of range
                   unwound(st, buf)
              ELSE LET w == cursor_write(buf, SubSeq(slice, 1, bytes_to_steal))
                       bytes_written == w.n
                       full == bytes_written = bytes_to_steal
                       value == from_le_bytes(w.cur.inner)
                       buf1 == IF full THEN set_position(w.cur, 0) ELSE w.cur
                       st1 == IF full THEN marvin32_mix(st, value) ELSE st
                   IN  IF dbg /\ bytes_written # Min(Len(slice), bytes_to_steal)
                       THEN unwound(st, w.cur)
                       ELSE write_chunks(dbg, st1, buf1,
                                SubSeq(slice, bytes_written + 1, Len(slice)))
         ELSE write_chunks(dbg, st, buf, slice)

\* the mixes run on self.state itself
finish_effect_in_place(st, buf) ==
    LET final_value == fold_rev(as_u32(Pad), SubSeq(buf.inner, 1, buf.pos))
        state1 == marvin32_mix(st, final_value)
        state2 == marvin32_mix(state1, <<0, 0>>)
    IN  [value |-> into_u64(xor32(state2.lo, state2.hi)),
         state |-> state2, buffer |-> buf]

\* lib.rs:179-188: the mixes run on a clone, self keeps st and buf
finish_effect(st, buf) ==
    LET final_value == fold_rev(as_u32(Pad), SubSeq(buf.inner, 1, buf.pos))
        clone == st
        state1 == marvin32_mix(clone, final_value)
        state2 == marvin32_mix(state1, <<0, 0>>)
    IN  [value |-> into_u64(xor32(state2.lo, state2.hi)),
         state |-> st, buffer |-> buf]

\* ------------------------------------------- marvin32_hash_streaming
\* the read is given the whole of dst
fill_from_start(buf, off, data) ==
    [i \in 1 .. BufSize |-> IF i <= Len(data) THEN data[i] ELSE buf[i]]

\* dst[offset..] after a read that delivered data
fill(buf, off, data) ==
    [i \in 1 .. BufSize |->
        IF i > off /\ i <= off + Len(data) THEN data[i - off] ELSE buf[i]]

\* read_chunked returns after every read that delivered data
read_returns_always(off) == TRUE

\* read_chunked returns only once offset has passed C
read_returns_late(off) == off > BufSize

\* lib.rs:112-114: after offset += n, read_chunked returns iff offset == C
read_returns(off) == off = BufSize

\* every failed read is retried
on_err_retry_all(kind) == "continue"

\* every failed read is returned
on_err_return_all(kind) == "return"

\* lib.rs:116-121: what read_chunked does with a failed read
on_err(kind) == IF kind = "Interrupted" THEN "continue" ELSE "return"

\* the last arm lacks its break: a count below 4 leaves the loop running
on_chunk_no_break(st, buf, n) ==
    IF n > 4 THEN [next |-> "unreachable", state |-> st, value |-> <<0, 0>>]
    ELSE IF n = 4
    THEN [next |-> "reading",
          state |-> marvin32_mix(st, from_le_bytes(buf)),
          value |-> <<0, 0>>]
    ELSE [next |-> "reading", state |-> st, value |-> <<0, 0>>]

\* lib.rs:80-92: the match on the count n that read_chunked returned
on_chunk(st, buf, n) ==
    IF n > 4 THEN [next |-> "unreachable", state |-> st, value |-> <<0, 0>>]
    ELSE IF n = 4
    THEN [next |-> "reading",
          state |-> marvin32_mix(st, from_le_bytes(buf)),
          value |-> <<0, 0>>]
    ELSE LET final_value == fold_rev(as_u32(Pad), SubSeq(buf, 1, n))
             state1 == marvin32_mix(st, final_value)
             state2 == marvin32_mix(state1, <<0, 0>>)
         IN  [next |-> "returned", state |-> state2,
              value |-> xor32(state2.lo, state2.hi)]

\* ------------------------------------------------------------ the machine
VARIABLES
    entry,            \* the entry point the caller uses
    input,            \* the caller's bytes B
    seed,             \* the caller's seed S
    debug_assertions, \* cfg!(debug_assertions) of the build
    consumed,         \* bytes of input handed to write / delivered by read
    pc,               \* where the call is
    self_state,       \* Marvin32::state
    self_buffer,      \* Marvin32::buffer
    state,            \* marvin32_hash_streaming: state
    buffer,           \* marvin32_hash_streaming: buffer
    offset,           \* read_chunked: offset
    interrupts,       \* Interrupted failures the source has produced
    twin,             \* a Marvin32 given the same writes and never a finish
    last,             \* the last operation that ran; for a failed read,
                      \* the ErrorKind the source failed with
    result            \* what the last returning call returned

vars == <<entry, input, seed, debug_assertions, consumed, pc, self_state,
          self_buffer, state, buffer, offset, interrupts, twin, last, result>>

hasher == <<self_state, self_buffer>>
stream == <<state, buffer, offset, interrupts>>
streaming == <<state, buffer, offset>>
caller == <<entry, input, seed, debug_assertions>>

NoResult == [tag |-> "none", val |-> <<>>, kind |-> "none"]
Ok(v) == [tag |-> "ok", val |-> v, kind |-> "none"]
Err(k) == [tag |-> "err", val |-> <<>>, kind |-> k]

\* Marvin32::new(seed), and the locals of marvin32_hash_streaming
Init ==
    /\ entry \in {"hash", "hash_streaming", "hasher"}
    /\ input \in Inputs
    /\ seed \in Seeds
    /\ debug_assertions \in BOOLEAN
    /\ consumed = 0
    /\ pc = CASE entry = "hash" -> "call"
              [] entry = "hash_streaming" -> "reading"
              [] OTHER -> "idle"
    /\ self_state = init_state(seed)
    /\ self_buffer = cursor_new
    /\ state = init_state(seed)
    /\ buffer = <<0, 0, 0, 0>>
    /\ offset = 0
    /\ interrupts = 0
    /\ twin = <<init_state(seed), cursor_new>>
    /\ last = "new"
    /\ result = NoResult

\* hash(slice, seed)
hash ==
    /\ pc = "call"
    /\ result' = Ok(marvin32_hash(input, seed))
    /\ pc' = "returned"
    /\ last' = "hash"
    /\ consumed' = Len(input)
    /\ UNCHANGED <<caller, hasher, stream, twin>>

\* Hasher::write with the next k bytes of the input
write(k) ==
    /\ pc = "idle"
    /\ LET slice == SubSeq(input, consumed + 1, consumed + k)
           eff == write_effect(debug_assertions, self_state, self_buffer, slice)
           tw == write_effect(debug_assertions, twin[1], twin[2], slice)
       IN  /\ self_state' = eff.state
           /\ self_buffer' = eff.buffer
           /\ pc' = IF eff.panic THEN "panicked" ELSE "idle"
           /\ twin' = <<tw.state, tw.buffer>>
    /\ consumed' = consumed + k
    /\ last' = "write"
    /\ UNCHANGED <<caller, stream, result>>

\* Hasher::finish
finish ==
    /\ pc = "idle"
    /\ LET eff == finish_effect(self_state, self_buffer)
       IN  /\ result' = Ok(eff.value)
           /\ self_state' = eff.state
           /\ self_buffer' = eff.buffer
    /\ last' = "finish"
    /\ UNCHANGED <<caller, stream, consumed, pc, twin>>

\* src.read(&mut dst[offset..]) returns Ok(n), n > 0, having copied the next
\* n bytes of the input (lib.rs:110-115), up to the next read or the return
read_ok(n) ==
    /\ pc = "reading"
    /\ n \in 1 .. Min(BufSize - offset, Len(input) - consumed)
    /\ LET buf1 == fill(buffer, offset, SubSeq(input, consumed + 1, consumed + n))
           offset1 == offset + n
       IN  /\ buffer' = buf1
           /\ IF read_returns(offset1)
              THEN \* return Ok(C); the next call starts at offset 0
                   LET m == on_chunk(state, buf1, offset1)
                   IN  /\ state' = m.state
                       /\ pc' = m.next
                       /\ offset' = 0
                       /\ result' = IF m.next = "returned" THEN Ok(m.value)
                                    ELSE result
              ELSE /\ state' = state
                   /\ offset' = offset1
                   /\ pc' = IF offset1 >= BufSize THEN "unreachable"
                            ELSE "reading"
                   /\ result' = result
    /\ consumed' = consumed + n
    /\ last' = "read_ok"
    /\ UNCHANGED <<caller, hasher, interrupts, twin>>

\* src.read returns Ok(0): read_chunked returns Ok(offset) (lib.rs:109)
read_eof ==
    /\ pc = "reading"
    /\ consumed = Len(input)
    /\ LET m == on_chunk(state, buffer, offset)
       IN  /\ state' = m.state
           /\ pc' = m.next
           /\ result' = IF m.next = "returned" THEN Ok(m.value) ELSE result
    /\ last' = "read_eof"
    /\ UNCHANGED <<caller, hasher, buffer, offset, interrupts, consumed, twin>>

\* src.read fails with an error of the given kind (lib.rs:116-121): an
\* Interrupted read is retried, any other error is returned, passed on by `?`
read_err(kind) ==
    /\ pc = "reading"
    /\ kind = "Interrupted" => interrupts < MaxInterrupts
    /\ interrupts' = IF kind = "Interrupted" THEN interrupts + 1 ELSE interrupts
    /\ IF on_err(kind) = "continue"
       THEN UNCHANGED <<pc, result>>
       ELSE /\ pc' = "returned"
            /\ result' = Err(kind)
    /\ last' = kind
    /\ UNCHANGED <<caller, hasher, streaming, consumed, twin>>

Next ==
    \/ hash
    \/ \E k \in 0 .. (Len(input) - consumed) : write(k)
    \/ finish
    \/ \E n \in 1 .. BufSize : read_ok(n)
    \/ read_eof
    \/ \E kind \in ErrorKinds : read_err(kind)

Spec == Init /\ [][Next]_vars

\* lib.rs:79-93, 104-123: the loops of marvin32_hash_streaming and
\* read_chunked run on: a call that is reading gets the reply to its read
Reads ==
    \/ \E kind \in ErrorKinds : read_err(kind)
    \/ read_eof
    \/ \E n \in 1 .. BufSize : read_ok(n)

SpecLive == Init /\ [][Next]_vars /\ WF_vars(Reads)

\* ------------------------------------------------- marvin32_mix on its own
\* halves of a state at the edges of the u32 range, and the unit tests' seed
EdgeWords == {<<0, 0>>, <<1, 0>>, <<65535, 32767>>, <<0, 32768>>,
              <<65535, 65535>>, <<46072, 50328>>}
\* the bytes of the word mixed, least significant first
EdgeBuffers == {<<0, 0, 0, 0>>, <<1, 0, 0, 0>>, <<255, 255, 255, 255>>,
                <<0, 0, 0, 128>>, <<65, 0, 98, 0>>}

\* any state, about to mix any word
MixInit ==
    /\ entry = "mix"
    /\ pc = "mix"
    /\ state \in [lo : EdgeWords, hi : EdgeWords]
    /\ buffer \in EdgeBuffers
    /\ input = <<>>
    /\ seed = <<0, 0, 0, 0>>
    /\ debug_assertions = FALSE
    /\ consumed = 0
    /\ self_state = init_state(seed)
    /\ self_buffer = cursor_new
    /\ offset = 0
    /\ interrupts = 0
    /\ twin = <<init_state(seed), cursor_new>>
    /\ last = "new"
    /\ result = NoResult

\* lib.rs:83-84: the word in buffer is mixed; consumed counts the words, and
\* the next word is any of EdgeBuffers
mix_word ==
    /\ pc = "mix"
    /\ consumed < MaxMixes
    /\ state' = marvin32_mix(state, from_le_bytes(buffer))
    /\ buffer' \in EdgeBuffers
    /\ consumed' = consumed + 1
    /\ last' = "mix"
    /\ UNCHANGED <<caller, hasher, offset, interrupts, twin, pc, result>>

MixNext == mix_word

SpecMix == MixInit /\ [][MixNext]_vars

\* ------------------------------------------------------------ properties
\* the bytes handed to write so far
pushed == SubSeq(input, 1, consumed)

\* C1: for every splitting of B into consecutive pushes, every push returns
\* and finish() of the hasher equals hash(B, S) over the bytes pushed.
C1_PushEquivalence ==
    entry = "hasher" =>
        /\ pc = "idle"
        /\ last = "finish" =>
               result = Ok(into_u64(marvin32_hash(pushed, seed)))

\* C2: however the source fragments its reads of B, hash_streaming returns
\* Ok(hash(B, S)) once the source has reported the end of the input.
C2_StreamingEquivalence ==
    entry = "hash_streaming" =>
        /\ last = "read_eof" =>
               pc = "returned" /\ result = Ok(marvin32_hash(input, seed))
        /\ result.tag = "ok" => result.val = marvin32_hash(input, seed)

\* a source delivered more than one word and a remainder, then the end
C2_Witness ==
    /\ entry = "hash_streaming"
    /\ last = "read_eof"
    /\ pc = "returned"
    /\ Len(input) > BufSize
    /\ offset \in 1 .. 3
    /\ result.tag = "ok"

\* C3: write returns normally from every reachable hasher state for a slice
\* of any length: no call of write unwinds.
C3_PushTotal == pc # "panicked"

\* C4: finish leaves state and buffer as they were, a finish that follows a
\* finish returns the same value, and the hasher stays equal to a twin that
\* was given the same writes and no finish.
C4_FinishFrame ==
    [][/\ last' = "finish" =>
              /\ self_state' = self_state
              /\ self_buffer' = self_buffer
              /\ last = "finish" => result' = result
       /\ <<self_state', self_buffer'>> = twin']_vars

\* a finish was followed by a write that left bytes in the buffer
C4_Witness ==
    /\ entry = "hasher"
    /\ last = "write"
    /\ pc = "idle"
    /\ result.tag = "ok"
    /\ self_buffer.pos > 0
    /\ consumed > BufSize

\* C5: a read that fails with a kind other than Interrupted makes
\* hash_streaming return that error and no hash value, wherever it happens.
C5_FatalErrorReturned ==
    (last \in ErrorKinds /\ last # "Interrupted") =>
        /\ pc = "returned"
        /\ result = Err(last)
        /\ result.val = <<>>

\* the read failed after a full word was mixed and with the buffer part full
C5_Witness ==
    /\ last = "Other"
    /\ pc = "returned"
    /\ result.tag = "err"
    /\ consumed > BufSize
    /\ offset > 0

\* C6: an Interrupted read is never returned: the call goes on reading with
\* the buffered bytes in place, and the result at the end of the input is
\* Ok(hash(B, S)) as without interruptions.
C6_InterruptedRetried ==
    entry = "hash_streaming" =>
        /\ result.kind # "Interrupted"
        /\ last = "Interrupted" =>
               /\ pc = "reading"
               /\ result = NoResult
        /\ pc = "reading" =>
               SubSeq(buffer, 1, offset) =
                   SubSeq(input, consumed - offset + 1, consumed)
        /\ (last = "read_eof" /\ interrupts > 0) =>
               result = Ok(marvin32_hash(input, seed))

\* a run that was interrupted ended with a hash over words and a remainder
C6_Witness ==
    /\ entry = "hash_streaming"
    /\ last = "read_eof"
    /\ interrupts > 0
    /\ result.tag = "ok"
    /\ offset > 0
    /\ Len(input) > BufSize

\* C7: the fill-length of the hasher's buffer is 0, 1, 2 or 3 after new and
\* before and after every write.
C7_PositionBelowFour == self_buffer.pos \in 0 .. 3

\* a write completed the buffered word, mixed it and buffered new bytes
C7_Witness ==
    /\ entry = "hasher"
    /\ last = "write"
    /\ pc = "idle"
    /\ consumed > BufSize
    /\ consumed < 2 * BufSize
    /\ self_buffer.pos = consumed - BufSize
    /\ self_state # init_state(seed)

\* C8: for the 14 bytes of TEST and the seed TEST_SEED the result is
\* 0xba627c81 from hash, from hash_streaming and from finish after the bytes
\* were pushed.
C8_KnownVector ==
    (input = TEST /\ seed = TEST_SEED) =>
        /\ last = "hash" => result = Ok(TEST_HASH)
        /\ last = "read_eof" => result = Ok(TEST_HASH)
        /\ (last = "finish" /\ consumed = Len(TEST)) =>
               result = Ok(into_u64(TEST_HASH))

\* the hasher finished over the 14 bytes with the test seed
C8_Witness ==
    /\ input = TEST
    /\ seed = TEST_SEED
    /\ entry = "hasher"
    /\ last = "finish"
    /\ consumed = Len(TEST)
    /\ result.tag = "ok"

\* C9: a write of k < 4 - p bytes onto a buffer holding p bytes, 1 <= p <= 3,
\* mixes nothing: state is unchanged and the buffer holds the old p bytes
\* followed by the k new ones, with position p + k.
C9_ShortPushNoMix ==
    [][(/\ pc = "idle"
        /\ last' = "write"
        /\ self_buffer.pos \in 1 .. 3
        /\ consumed' - consumed < 4 - self_buffer.pos) =>
           /\ pc' = "idle"
           /\ self_state' = self_state
           /\ self_buffer'.pos = self_buffer.pos + (consumed' - consumed)
           /\ SubSeq(self_buffer'.inner, 1, self_buffer'.pos) =
                  SubSeq(self_buffer.inner, 1, self_buffer.pos)
                      \o SubSeq(input, consumed + 1, consumed')]_vars

\* C10: after any sequence of pushes the hasher depends on the bytes pushed
\* and the seed only: position = N mod 4, the buffered bytes are the last
\* N mod 4 bytes, and state is the seed state advanced over the first
\* N div 4 words.
C10_StateOfBytesOnly ==
    entry = "hasher" =>
        /\ pc = "idle"
        /\ self_buffer.pos = consumed % BufSize
        /\ SubSeq(self_buffer.inner, 1, self_buffer.pos) = remainder(pushed)
        /\ self_state = mix_chunks(init_state(seed), chunks_exact(pushed))

\* the 32-bit little-endian word whose byte i is r[i] for i < n, whose byte n
\* is 0x80 and whose higher bytes are 0, as <<low half, high half>>
FinalWord(r) ==
    LET byte(i) == IF i <= Len(r) THEN r[i]
                   ELSE IF i = Len(r) + 1 THEN 128 ELSE 0
    IN  <<byte(1) + 256 * byte(2), byte(3) + 256 * byte(4)>>

\* lo XOR hi after st has been advanced by FinalWord(r) and then by the word 0
Finalized(st, r) ==
    LET s1 == marvin32_mix(st, FinalWord(r))
        s2 == marvin32_mix(s1, <<0, 0>>)
    IN  xor32(s2.lo, s2.hi)

\* C11: each entry point finalizes a remainder r of n <= 3 bytes by mixing
\* FinalWord(r) and then 0 and returns lo XOR hi; in hash_streaming r is the
\* bytes read since the last full word, whatever else the buffer still holds.
C11_Finalization ==
    [][/\ last' = "hash" =>
              result' = Ok(Finalized(mix_chunks(init_state(seed),
                                                chunks_exact(input)),
                                     remainder(input)))
       /\ last' = "read_eof" =>
              /\ offset \in 0 .. 3
              /\ result' = Ok(Finalized(state,
                        SubSeq(input, consumed - offset + 1, consumed)))
              /\ state' = marvin32_mix(marvin32_mix(state,
                        FinalWord(SubSeq(input, consumed - offset + 1,
                                         consumed))), <<0, 0>>)
       /\ last' = "finish" =>
              result' = Ok(into_u64(Finalized(self_state, remainder(pushed))))
      ]_vars

\* the input ended one byte after a full word whose last three bytes are still
\* in the buffer
C11_Witness ==
    /\ entry = "hash_streaming"
    /\ last = "read_eof"
    /\ result.tag = "ok"
    /\ consumed > BufSize
    /\ offset = 1
    /\ buffer[2] # 0 /\ buffer[3] # 0 /\ buffer[4] # 0

\* the 32-tuple whose element i + 1 is F(i): bit vectors are tuples, bit 0
\* (the least significant) first
Tuple32(F(_)) ==
    <<F(0), F(1), F(2), F(3), F(4), F(5), F(6), F(7),
      F(8), F(9), F(10), F(11), F(12), F(13), F(14), F(15),
      F(16), F(17), F(18), F(19), F(20), F(21), F(22), F(23),
      F(24), F(25), F(26), F(27), F(28), F(29), F(30), F(31)>>

\* a u32 as its 32 bits
BitsOf(w) ==
    LET bit(i) == IF i < 16 THEN (w[1] \div (2 ^ i)) % 2
                  ELSE (w[2] \div (2 ^ (i - 16))) % 2
    IN  Tuple32(bit)

\* the bits of the word whose bytes, least significant first, are b
BitsOfBytes(b) ==
    LET bit(i) == (b[(i \div 8) + 1] \div (2 ^ (i % 8))) % 2
    IN  Tuple32(bit)

\* the carry into bit i of a + b
RECURSIVE CarryInto(_, _, _)
CarryInto(a, b, i) ==
    IF i = 0 THEN 0
    ELSE (a[i] + b[i] + CarryInto(a, b, i - 1)) \div 2

\* (a + b) mod 2^32: the carry out of bit 31 is dropped
AddMod32(a, b) ==
    LET bit(i) == (a[i + 1] + b[i + 1] + CarryInto(a, b, i)) % 2
    IN  Tuple32(bit)

XorBits(a, b) ==
    LET bit(i) == (a[i + 1] + b[i + 1]) % 2
    IN  Tuple32(bit)

\* rotl(a, n): bit i of the result is bit i - n (mod 32) of a
Rotl(a, n) ==
    LET bit(i) == a[((i + 32 - n) % 32) + 1]
    IN  Tuple32(bit)

\* the six steps of mix on bit vectors
MixBits(lo, hi, v) ==
    LET lo1 == AddMod32(lo, v)
        hi1 == XorBits(hi, lo1)
        lo2 == AddMod32(Rotl(lo1, 20), hi1)
        hi2 == XorBits(Rotl(hi1, 9), lo2)
        lo3 == AddMod32(Rotl(lo2, 27), hi2)
        hi3 == Rotl(hi2, 19)
    IN  [lo |-> lo3, hi |-> hi3]

IsU32(w) == w[1] \in 0 .. (Limb - 1) /\ w[2] \in 0 .. (Limb - 1)

\* C12: for every state and word, mix yields lo1 = lo + v, hi1 = hi ^ lo1,
\* lo2 = rotl(lo1, 20) + hi1, hi2 = rotl(hi1, 9) ^ lo2,
\* lo3 = rotl(lo2, 27) + hi2, hi3 = rotl(hi2, 19), the additions modulo 2^32,
\* and both halves of the new state are again below 2^32.
C12_MixExact ==
    [][last' = "mix" =>
          LET m == MixBits(BitsOf(state.lo), BitsOf(state.hi),
                           BitsOfBytes(buffer))
          IN  /\ IsU32(state'.lo) /\ IsU32(state'.hi)
              /\ BitsOf(state'.lo) = m.lo
              /\ BitsOf(state'.hi) = m.hi]_vars

\* two words were mixed into a state whose lo was 0xFFFFFFFF, so that the
\* first addition wrapped
C12_Witness ==
    /\ entry = "mix"
    /\ last = "mix"
    /\ consumed = 2
    /\ state = marvin32_mix(marvin32_mix([lo |-> <<65535, 65535>>,
                                          hi |-> <<0, 32768>>],
                                         from_le_bytes(<<1, 0, 0, 0>>)),
                            from_le_bytes(<<255, 255, 255, 255>>))

\* C13: a read of 1 to 3 bytes is progress: hash_streaming keeps reading,
\* the bytes accumulate and are mixed as one word when the fourth arrives;
\* the call returns a hash only on a read of 0 bytes, and then offset is the
\* number of bytes read since the last full word.
C13_ShortReadIsProgress ==
    [][/\ last' = "read_ok" =>
              /\ pc' = "reading"
              /\ result' = NoResult
              /\ offset + (consumed' - consumed) < BufSize =>
                     /\ offset' = offset + (consumed' - consumed)
                     /\ state' = state
              /\ offset + (consumed' - consumed) = BufSize =>
                     /\ offset' = 0
                     /\ state' = marvin32_mix(state,
                            from_le_bytes(SubSeq(input, consumed' - 3,
                                                 consumed')))
       /\ (pc = "reading" /\ result'.tag = "ok") =>
              /\ last' = "read_eof"
              /\ consumed = Len(input)
              /\ offset = Len(input) % BufSize
      ]_vars

\* a second word is being accumulated from reads shorter than what was asked
C13_Witness ==
    /\ entry = "hash_streaming"
    /\ last = "read_ok"
    /\ pc = "reading"
    /\ consumed > BufSize
    /\ offset \in 2 .. 3
    /\ state # init_state(seed)

\* C14: with a source that fails with Interrupted finitely often (at most
\* MaxInterrupts times) and then returns data, 0 bytes or another error,
\* every call of hash_streaming returns.
C14_StreamingTerminates ==
    (entry = "hash_streaming") ~> (pc = "returned" /\ result.tag # "none")

\* a call that was interrupted as often as the source may and read more than
\* a word has returned
C14_Witness ==
    /\ entry = "hash_streaming"
    /\ pc = "returned"
    /\ result.tag # "none"
    /\ interrupts > 1
    /\ consumed > BufSize

\* C15: once the source has returned 0 bytes, hash_streaming has returned
\* its hash and takes no further step: no read follows the end of the input.
C15_NoReadAfterEof ==
    [][/\ last' = "read_eof" => (pc' = "returned" /\ result'.tag = "ok")
       /\ last # "read_eof"]_vars

\* the 0-byte read came on an empty buffer, after exactly one word
C15_Witness ==
    /\ entry = "hash_streaming"
    /\ last = "read_eof"
    /\ pc = "returned"
    /\ offset = 0
    /\ consumed = BufSize
    /\ Len(input) = BufSize

\* C16: the value finish returns is below 2^32: its two upper 16-bit limbs
\* are zero and the two lower ones are the 32-bit hash.
C16_FinishIsU32 ==
    (entry = "hasher" /\ result.tag = "ok") =>
        /\ Len(result.val) = 4
        /\ result.val[1] \in 0 .. (Limb - 1)
        /\ result.val[2] \in 0 .. (Limb - 1)
        /\ result.val[3] = 0
        /\ result.val[4] = 0

\* finish returned a hash with bit 31 set
C16_Witness ==
    /\ entry = "hasher"
    /\ last = "finish"
    /\ result.tag = "ok"
    /\ consumed > 0
    /\ result.val[2] >= 32768

\* C17: with a source that returns no more than the space it was given,
\* neither unreachable_unchecked is reached: offset is below 4 whenever
\* read_chunked is about to read, and no count above 4 reaches the match.
C17_UnreachableNotReached ==
    /\ pc # "unreachable"
    /\ pc = "reading" => offset \in 0 .. (BufSize - 1)
    /\ offset < BufSize

\* reads filled the buffer to exactly 4 bytes and the call went on reading
C17_Witness ==
    /\ entry = "hash_streaming"
    /\ last = "read_ok"
    /\ pc = "reading"
    /\ offset = 0
    /\ consumed = BufSize
    /\ Len(input) > BufSize

====
